---- MODULE Spec2Model ----
(***************************************************************************)
(* State-machine model of static/js/app.js (CV Analyzer page script):      *)
(* theme toggle, sidebar toggle, drag & drop upload zone, auto-closing     *)
(* alerts.  One action per browser event that the script handles.          *)
(*                                                                         *)
(* Strings that the script inspects character by character (file names)    *)
(* are sequences of UTF-16 code units, each unit written as a TLA+ string. *)
(* "U+0130" is LATIN CAPITAL LETTER I WITH DOT ABOVE, "U+0307" is          *)
(* COMBINING DOT ABOVE.                                                    *)
(***************************************************************************)
EXTENDS Integers, Sequences, FiniteSets, TLC

VARIABLES
    present,      \* ids of the elements that exist in the page
    loaded,       \* DOMContentLoaded has run
    storedTheme,  \* localStorage['theme'], "none" when the key is absent
    dataTheme,    \* data-theme attribute of the document root, "none" when unset
    themeIcon,    \* icon rendered inside the theme toggle
    themeTrail,   \* data-theme after load and after each toggle click (history)
    sidebarShow,  \* the sidebar carries class "show"
    dragover,     \* the upload zone carries class "dragover"
    inputFiles,   \* input.files of #cvFileInput: sequence of file names
    uploadText,   \* textContent of the zone's .upload-text element
    alerts,       \* alert nodes: slot -> record
    toggleClicks, \* clicks on #sidebarToggle so far; -1 once another click's
                  \* document listener has changed the sidebar's "show" state
    lastEvent     \* the event handled last and what its handlers called

vars == <<present, loaded, storedTheme, dataTheme, themeIcon, themeTrail,
          sidebarShow, dragover, inputFiles, uploadText, alerts, toggleClicks,
          lastEvent>>

----------------------------------------------------------------------------
(* Bounds of the model *)

\* most files carried by one drop or one picker selection
MaxFiles == 2
\* alert nodes alive at the same time
MaxAlerts == 2
\* theme toggle clicks recorded in themeTrail
MaxClicks == 2
\* sidebar toggle clicks counted in toggleClicks
MaxToggles == 3

----------------------------------------------------------------------------
(* The page *)

Elements == {"themeToggle", "sidebarToggle", "sidebar", "uploadZone",
             "cvFileInput", "uploadForm", "alertContainer", "uploadText"}

\* values localStorage['theme'] may hold when the page loads
StoredValues == {"none", "light", "dark", "auto"}

\* window.innerWidth at the time of a click, around the breakpoint
Widths == {992, 993}

InitialText == <<"Drop your CV here">>

----------------------------------------------------------------------------
(* File names *)

Str_REPORT_PDF  == <<"R","E","P","O","R","T",".","P","D","F">>
Str_Resume_DOCX == <<"R","e","s","u","m","e",".","D","O","C","X">>
Str_cv_txt      == <<"c","v",".","t","x","t">>
Str_cv_pdf_exe  == <<"c","v",".","p","d","f",".","e","x","e">>
Str_cv_PDF_sp   == <<"c","v",".","P","D","F"," ">>
Str_resume      == <<"r","e","s","u","m","e">>
Str_Idot_pdf    == <<"U+0130",".","p","d","f">>

FileNames == {Str_REPORT_PDF, Str_Resume_DOCX, Str_cv_txt, Str_cv_pdf_exe,
              Str_cv_PDF_sp, Str_resume, Str_Idot_pdf}

\* names of the files that follow the first one in a multi-file drop
ExtraNames == {Str_cv_pdf_exe}

RECURSIVE Tails(_)
Tails(n) == IF n = 0 THEN {<<>>}
            ELSE Tails(n - 1) \cup
                 {t \o <<g>> : t \in Tails(n - 1), g \in ExtraNames}

\* the file lists a drop or a picker selection may carry
FileLists == {<<>>} \cup {<<f>> \o t : f \in FileNames, t \in Tails(MaxFiles - 1)}

----------------------------------------------------------------------------
(* String functions of the runtime *)

UpperAscii == <<"A","B","C","D","E","F","G","H","I","J","K","L","M",
                "N","O","P","Q","R","S","T","U","V","W","X","Y","Z">>
LowerAscii == <<"a","b","c","d","e","f","g","h","i","j","k","l","m",
                "n","o","p","q","r","s","t","u","v","w","x","y","z">>

\* String.prototype.toLowerCase on one code unit: U+0130 lowers to the two
\* units U+0069 U+0307, every other unit to one unit
LowerUnit(c) ==
    IF c = "U+0130" THEN <<"i", "U+0307">>
    ELSE IF \E k \in 1..26 : UpperAscii[k] = c
         THEN <<LowerAscii[CHOOSE k \in 1..26 : UpperAscii[k] = c]>>
         ELSE <<c>>

RECURSIVE toLowerCase(_)
toLowerCase(s) == IF s = <<>> THEN <<>>
                  ELSE LowerUnit(Head(s)) \o toLowerCase(Tail(s))

\* String.prototype.lastIndexOf: 0-based index of the last c, -1 when none
lastIndexOf(s, c) ==
    IF \E i \in 1..Len(s) : s[i] = c
    THEN (CHOOSE i \in 1..Len(s) : s[i] = c /\ \A j \in (i+1)..Len(s) : s[j] # c) - 1
    ELSE -1

\* String.prototype.substring(start): start clamped to [0, length]
substring(s, start) ==
    LET from == IF start < 0 THEN 0 ELSE IF start > Len(s) THEN Len(s) ELSE start
    IN  SubSeq(s, from + 1, Len(s))

----------------------------------------------------------------------------
(* Theme toggle *)

\* line 15: localStorage.getItem('theme') || 'light'
SavedThemeNoDefault(stored) == stored
SavedTheme(stored) == IF stored = "none" THEN "light" ELSE stored

\* line 21: the opposite of the displayed theme
NextThemeAlwaysDark(current) == "dark"
NextTheme(current) == IF current = "dark" THEN "light" ELSE "dark"

\* line 23: the value written to localStorage['theme'] by a click
PersistedCurrent(current, next) == current
Persisted(current, next) == next

\* updateThemeIcon: nothing is drawn when the toggle is missing
IconFor(theme) == IF theme = "dark" THEN "sun" ELSE "moon"

ThemeBound == loaded /\ "themeToggle" \in present

----------------------------------------------------------------------------
(* Sidebar *)

Breakpoint == 992

SidebarBound == loaded /\ "sidebarToggle" \in present /\ "sidebar" \in present

\* the document-level click listener of initSidebarToggle: the sidebar's
\* "show" state after a click at viewport width w whose target lies inside
\* the sidebar (inSidebar) or inside the toggle button (inBtn)
DocumentClickBelow(show, w, inSidebar, inBtn) ==
    IF SidebarBound /\ w < Breakpoint /\ ~inSidebar /\ ~inBtn THEN FALSE ELSE show
DocumentClickAnyTarget(show, w, inSidebar, inBtn) ==
    IF SidebarBound /\ w <= Breakpoint /\ ~inSidebar THEN FALSE ELSE show
DocumentClick(show, w, inSidebar, inBtn) ==
    IF SidebarBound /\ w <= Breakpoint /\ ~inSidebar /\ ~inBtn THEN FALSE ELSE show

\* the count of toggle clicks after a click elsewhere that took the sidebar
\* from show to show2
RunAfter(n, show, show2) == IF show2 # show THEN -1 ELSE n

----------------------------------------------------------------------------
(* Alerts *)

AlertIds == 1..MaxAlerts

\* origin: who created the node; parent: its parentNode ("none" when
\* detached); timer: state of its auto-close timer; closeCalls: calls of the
\* widget's close() on it; type: severity class; dismissible: it carries
\* class alert-dismissible and a close button; timers: setTimeout calls made
\* for it
NoAlert == [origin |-> "none", parent |-> "none", timer |-> "none",
            closeCalls |-> 0, type |-> "none", message |-> "none",
            dismissible |-> FALSE, timers |-> 0]

\* a dismissible alert rendered by the server into the page
PreRendered == [origin |-> "prerendered", parent |-> "page", timer |-> "none",
                closeCalls |-> 0, type |-> "info", message |-> "server message",
                dismissible |-> TRUE, timers |-> 0]

RejectMessage == "Only PDF, DOCX, and TXT files are accepted."

\* bootstrap.Alert.getOrCreateInstance(alert).close(): the close is carried
\* out on the node and the node leaves the document
BsClose(al) == [al EXCEPT !.parent = "none", !.closeCalls = @ + 1]

\* a slot is free when its node is detached and no timer refers to it
FreeSlot(a) == alerts[a].parent = "none" /\ alerts[a].timer # "pending"

\* showAlert: the alert list after the call; unchanged without a container
showAlertDetached(as, a, message, type) ==
    IF "alertContainer" \notin present THEN as
    ELSE [as EXCEPT ![a] = [origin |-> "injected", parent |-> "none",
                            timer |-> "pending", closeCalls |-> 0,
                            type |-> type, message |-> message,
                            dismissible |-> TRUE, timers |-> 1]]
showAlert(as, a, message, type) ==
    IF "alertContainer" \notin present THEN as
    ELSE [as EXCEPT ![a] = [origin |-> "injected", parent |-> "alertContainer",
                            timer |-> "pending", closeCalls |-> 0,
                            type |-> type, message |-> message,
                            dismissible |-> TRUE, timers |-> 1]]

\* timer callback of initAutoCloseAlerts (lines 115-118)
AutoCloseCallback(al) == [BsClose(al) EXCEPT !.timer = "fired"]

\* timer callback of showAlert (lines 130-135)
ShowAlertCallbackInverted(al) ==
    IF al.parent = "none" THEN [BsClose(al) EXCEPT !.timer = "fired"]
    ELSE [al EXCEPT !.timer = "fired"]
ShowAlertCallback(al) ==
    IF al.parent # "none" THEN [BsClose(al) EXCEPT !.timer = "fired"]
    ELSE [al EXCEPT !.timer = "fired"]

\* initAutoCloseAlerts: one timer per .alert-dismissible node in the document
initAutoCloseAlertsTwice(as) ==
    [a \in AlertIds |-> IF as[a].parent # "none"
                        THEN [as[a] EXCEPT !.timer = "pending", !.timers = @ + 2]
                        ELSE as[a]]
initAutoCloseAlerts(as) ==
    [a \in AlertIds |-> IF as[a].parent # "none"
                        THEN [as[a] EXCEPT !.timer = "pending", !.timers = @ + 1]
                        ELSE as[a]]

----------------------------------------------------------------------------
(* Upload zone *)

allowedExtensions == {<<".","p","d","f">>, <<".","d","o","c","x">>, <<".","t","x","t">>}

\* line 83: file.name.toLowerCase().substring(file.name.lastIndexOf('.'))
ExtOf(name) == substring(toLowerCase(name), lastIndexOf(name, "."))

\* line 84: allowedExtensions.indexOf(ext) === -1
RejectedUnlessPrefix(name) ==
    ~\E e \in allowedExtensions :
        Len(ExtOf(name)) >= Len(e) /\ SubSeq(ExtOf(name), 1, Len(e)) = e
Rejected(name) == ExtOf(name) \notin allowedExtensions

\* line 95: the change listener acts on a non-empty selection, whatever its
\* files are
ChangeHandledIfAllowed(sel) == Len(sel) > 0 /\ ~Rejected(sel[1])
ChangeHandled(sel) == Len(sel) > 0

UploadBound == loaded /\ "uploadZone" \in present /\ "cvFileInput" \in present

\* updateFileName: the status text after the call
updateFileName(text, name) ==
    IF "uploadZone" \in present /\ "uploadText" \in present
    THEN <<"Uploading: ">> \o name ELSE text

\* document.getElementById('uploadForm').submit(): the number of submit calls
\* made and whether calling submit on a missing form threw
SubmitCalls == IF "uploadForm" \in present THEN 1 ELSE 0
SubmitThrows == "uploadForm" \notin present

----------------------------------------------------------------------------
(* Events *)

\* kind: the event; file: name of the first file it carried (<<>> when none);
\* alert: the alert node it created or acted on (0 when none); submits: calls
\* of the form's submit(); threw: a handler ended in an uncaught exception;
\* width, wasShown: for a click handled by the sidebar's listeners,
\* window.innerWidth and the sidebar's "show" state when it was dispatched
NoEvent == [kind |-> "none", file |-> <<>>, alert |-> 0,
            submits |-> 0, threw |-> FALSE, width |-> 0, wasShown |-> FALSE]

Ev(kind) == [NoEvent EXCEPT !.kind = kind]

Init ==
    /\ present \in SUBSET Elements
    /\ loaded = FALSE
    /\ storedTheme \in StoredValues
    /\ dataTheme = "none"
    /\ themeIcon = "none"
    /\ themeTrail = <<>>
    /\ sidebarShow = FALSE
    /\ dragover = FALSE
    /\ inputFiles = <<>>
    /\ uploadText = InitialText
    /\ \E k \in {0, 1} :
         alerts = [a \in AlertIds |-> IF a <= k THEN PreRendered ELSE NoAlert]
    /\ toggleClicks = 0
    /\ lastEvent = NoEvent

\* lines 3-8: the four initialisers in order
DOMContentLoaded ==
    /\ ~loaded
    /\ loaded' = TRUE
    /\ IF "themeToggle" \in present
       THEN /\ dataTheme' = SavedTheme(storedTheme)
            /\ themeIcon' = IconFor(SavedTheme(storedTheme))
            /\ themeTrail' = <<SavedTheme(storedTheme)>>
       ELSE UNCHANGED <<dataTheme, themeIcon, themeTrail>>
    /\ alerts' = initAutoCloseAlerts(alerts)
    /\ lastEvent' = Ev("load")
    /\ UNCHANGED <<present, storedTheme, sidebarShow, dragover, inputFiles, uploadText,
                   toggleClicks>>

\* click on #themeToggle (lines 19-25), then the document click listener
ThemeToggleClick ==
    /\ ThemeBound
    /\ Len(themeTrail) <= MaxClicks
    /\ LET next == NextTheme(dataTheme) IN
         /\ dataTheme' = next
         /\ storedTheme' = Persisted(dataTheme, next)
         /\ themeIcon' = IconFor(next)
         /\ themeTrail' = Append(themeTrail, next)
    /\ \E w \in Widths, inSidebar \in BOOLEAN :
         sidebarShow' = DocumentClick(sidebarShow, w, inSidebar, FALSE)
    /\ toggleClicks' = RunAfter(toggleClicks, sidebarShow, sidebarShow')
    /\ lastEvent' = Ev("themeClick")
    /\ UNCHANGED <<present, loaded, dragover, inputFiles, uploadText, alerts>>

\* click on #sidebarToggle (lines 42-44), then the document click listener
SidebarToggleClick ==
    /\ SidebarBound
    /\ toggleClicks < MaxToggles
    /\ \E w \in Widths, inSidebar \in BOOLEAN :
         /\ sidebarShow' = DocumentClick(~sidebarShow, w, inSidebar, TRUE)
         /\ lastEvent' = [Ev("sidebarToggleClick") EXCEPT !.width = w,
                                                          !.wasShown = sidebarShow]
    /\ toggleClicks' = IF toggleClicks = -1 THEN -1 ELSE toggleClicks + 1
    /\ UNCHANGED <<present, loaded, storedTheme, dataTheme, themeIcon, themeTrail,
                   dragover, inputFiles, uploadText, alerts>>

\* click anywhere else: inside the sidebar or outside of it (lines 46-52)
PageClick ==
    /\ loaded
    /\ \E w \in Widths, inSidebar \in BOOLEAN :
         /\ inSidebar => "sidebar" \in present
         /\ sidebarShow' = DocumentClick(sidebarShow, w, inSidebar, FALSE)
         /\ lastEvent' = [Ev(IF inSidebar THEN "sidebarClick" ELSE "pageClick")
                             EXCEPT !.width = w, !.wasShown = sidebarShow]
    /\ toggleClicks' = RunAfter(toggleClicks, sidebarShow, sidebarShow')
    /\ UNCHANGED <<present, loaded, storedTheme, dataTheme, themeIcon, themeTrail,
                   dragover, inputFiles, uploadText, alerts>>

\* dragover on the zone (lines 67-70)
DragOver ==
    /\ UploadBound
    /\ dragover' = TRUE
    /\ lastEvent' = Ev("dragover")
    /\ UNCHANGED <<toggleClicks, present, loaded, storedTheme, dataTheme, themeIcon, themeTrail,
                   sidebarShow, inputFiles, uploadText, alerts>>

\* dragleave on the zone (lines 72-75)
DragLeaveKeepsClass ==
    /\ UploadBound
    /\ dragover' = dragover
    /\ lastEvent' = Ev("dragleave")
    /\ UNCHANGED <<toggleClicks, present, loaded, storedTheme, dataTheme, themeIcon,
                   themeTrail, sidebarShow, inputFiles, uploadText, alerts>>
DragLeave ==
    /\ UploadBound
    /\ dragover' = FALSE
    /\ lastEvent' = Ev("dragleave")
    /\ UNCHANGED <<toggleClicks, present, loaded, storedTheme, dataTheme, themeIcon, themeTrail,
                   sidebarShow, inputFiles, uploadText, alerts>>

\* drop on the zone (lines 77-92)
DropWithoutLengthCheck(files) ==
    /\ UploadBound
    /\ dragover' = FALSE
    /\ LET file == IF Len(files) > 0 THEN files[1] ELSE <<>> IN
         IF Rejected(file)
         THEN /\ \E a \in AlertIds :
                   /\ FreeSlot(a)
                   /\ \A b \in AlertIds : b < a => ~FreeSlot(b)
                   /\ alerts' = showAlert(alerts, a, RejectMessage, "danger")
                   /\ lastEvent' = [Ev("drop") EXCEPT !.file = file,
                         !.alert = IF "alertContainer" \in present THEN a ELSE 0]
              /\ UNCHANGED <<inputFiles, uploadText>>
         ELSE /\ inputFiles' = files
              /\ uploadText' = updateFileName(uploadText, file)
              /\ lastEvent' = [Ev("drop") EXCEPT !.file = file,
                                  !.submits = SubmitCalls,
                                  !.threw = SubmitThrows]
              /\ UNCHANGED alerts
    /\ UNCHANGED <<toggleClicks, present, loaded, storedTheme, dataTheme, themeIcon,
                   themeTrail, sidebarShow>>
Drop(files) ==
    /\ UploadBound
    /\ dragover' = FALSE
    /\ IF Len(files) > 0
       THEN LET file == files[1] IN
            IF Rejected(file)
            THEN /\ \E a \in AlertIds :
                      /\ FreeSlot(a)
                      /\ \A b \in AlertIds : b < a => ~FreeSlot(b)
                      /\ alerts' = showAlert(alerts, a, RejectMessage, "danger")
                      /\ lastEvent' = [Ev("drop") EXCEPT !.file = file,
                            !.alert = IF "alertContainer" \in present THEN a ELSE 0]
                 /\ UNCHANGED <<inputFiles, uploadText>>
            ELSE /\ inputFiles' = files
                 /\ uploadText' = updateFileName(uploadText, file)
                 /\ lastEvent' = [Ev("drop") EXCEPT !.file = file,
                                     !.submits = SubmitCalls,
                                     !.threw = SubmitThrows]
                 /\ UNCHANGED alerts
       ELSE /\ lastEvent' = Ev("drop")
            /\ UNCHANGED <<inputFiles, uploadText, alerts>>
    /\ UNCHANGED <<toggleClicks, present, loaded, storedTheme, dataTheme, themeIcon, themeTrail,
                   sidebarShow>>

\* the user picks sel in the native picker: input.files changes and the
\* change listener runs (lines 94-99)
InputChange(sel) ==
    /\ loaded
    /\ "cvFileInput" \in present
    /\ sel # inputFiles
    /\ inputFiles' = sel
    /\ IF UploadBound /\ ChangeHandled(sel)
       THEN /\ uploadText' = updateFileName(uploadText, sel[1])
            /\ lastEvent' = [Ev("change") EXCEPT !.file = sel[1],
                                !.submits = SubmitCalls,
                                !.threw = SubmitThrows]
       ELSE /\ lastEvent' = Ev("change")
            /\ UNCHANGED uploadText
    /\ UNCHANGED <<toggleClicks, present, loaded, storedTheme, dataTheme, themeIcon, themeTrail,
                   sidebarShow, dragover, alerts>>

\* click on the close button of an attached alert: the widget library closes
\* it (data-bs-dismiss="alert", line 128); the click also reaches the document
DismissClick(a) ==
    /\ loaded
    /\ alerts[a].parent # "none"
    /\ alerts' = [alerts EXCEPT ![a] = BsClose(@)]
    /\ \E w \in Widths, inSidebar \in BOOLEAN :
         sidebarShow' = DocumentClick(sidebarShow, w, inSidebar, FALSE)
    /\ toggleClicks' = RunAfter(toggleClicks, sidebarShow, sidebarShow')
    /\ lastEvent' = [Ev("dismiss") EXCEPT !.alert = a]
    /\ UNCHANGED <<present, loaded, storedTheme, dataTheme, themeIcon, themeTrail,
                   dragover, inputFiles, uploadText>>

\* the 5000 ms timer of alert a expires
TimerFire(a) ==
    /\ alerts[a].timer = "pending"
    /\ alerts' = [alerts EXCEPT ![a] =
                     IF @.origin = "prerendered" THEN AutoCloseCallback(@)
                     ELSE ShowAlertCallback(@)]
    /\ lastEvent' = [Ev("timer") EXCEPT !.alert = a]
    /\ UNCHANGED <<toggleClicks, present, loaded, storedTheme, dataTheme, themeIcon, themeTrail,
                   sidebarShow, dragover, inputFiles, uploadText>>

\* the theme widget: lines 10-34
ThemeNext ==
    \/ DOMContentLoaded
    \/ ThemeToggleClick

\* the sidebar widget: lines 36-53
SidebarNext ==
    \/ DOMContentLoaded
    \/ SidebarToggleClick
    \/ PageClick

\* the upload zone and the alerts: lines 55-136
UploadNext ==
    \/ DOMContentLoaded
    \/ DragOver
    \/ DragLeave
    \/ \E files \in FileLists : Drop(files)
    \/ \E sel \in FileLists : InputChange(sel)
    \/ \E a \in AlertIds : DismissClick(a)
    \/ \E a \in AlertIds : TimerFire(a)

Next == ThemeNext \/ SidebarNext \/ UploadNext

\* the whole page
Spec == Init /\ [][Next]_vars

\* The theme listener writes only the theme variables; the upload and alert
\* handlers write only theirs (a click on an alert's close button also reaches
\* the sidebar's document listener).  Each widget is checked as the page
\* restricted to the events of that widget.
ThemeSpec == Init /\ [][ThemeNext]_vars

\* the elements the upload zone and the alerts bind to; the page of UploadSpec
\* holds the other widgets' elements and no stored theme
UploadElements == {"uploadZone", "cvFileInput", "uploadForm", "alertContainer",
                   "uploadText"}

UploadInit == Init /\ (Elements \ UploadElements) \subseteq present
                   /\ storedTheme = "none"

UploadSpec == UploadInit /\ [][UploadNext]_vars

SidebarSpec == Init /\ [][SidebarNext]_vars

\* timers are run by the browser's event loop: a pending timer expires
UploadFairSpec == UploadSpec /\ \A a \in AlertIds : WF_vars(TimerFire(a))

----------------------------------------------------------------------------
(* Vocabulary of the properties *)

\* the allow-list as documented: .pdf, .docx, .txt
AllowList == {<<".","p","d","f">>, <<".","d","o","c","x">>, <<".","t","x","t">>}

\* the extension of a name: the lower-cased substring from its last "." to
\* its end, the whole name when it holds no "."
TrueExt(name) == toLowerCase(substring(name, lastIndexOf(name, ".")))

\* the name ends in one of the allowed extensions, in any letter case
EndsInAllowed(name) ==
    \E e \in AllowList :
        /\ Len(name) >= Len(e)
        /\ toLowerCase(SubSeq(name, Len(name) - Len(e) + 1, Len(name))) = e

UploadText(name) == <<"Uploading: ">> \o name

WasDrop(ev) == ev.kind = "drop" /\ ev.file # <<>>

----------------------------------------------------------------------------
(* Properties *)

\* C1: with the zone, the input, the form and the status text present, a drop
\* whose first file's name ends in .pdf, .docx or .txt in any letter case is
\* accepted: the text reads "Uploading: " + name and submit was called once.
C1_DropAccepted ==
    ( /\ {"uploadZone", "cvFileInput", "uploadForm", "uploadText"} \subseteq present
      /\ WasDrop(lastEvent)
      /\ EndsInAllowed(lastEvent.file) )
    => /\ uploadText = UploadText(lastEvent.file)
       /\ lastEvent.submits = 1

\* C2: a drop whose first file's extension is not exactly .pdf, .docx or .txt
\* is rejected: submit is not called, input.files and the status text keep
\* their values.
C2_DropRejected ==
    [][ (WasDrop(lastEvent') /\ TrueExt(lastEvent'.file) \notin AllowList)
        => /\ lastEvent'.submits = 0
           /\ inputFiles' = inputFiles
           /\ uploadText' = uploadText ]_vars

C2_Witness ==
    /\ WasDrop(lastEvent)
    /\ lastEvent.file = Str_cv_PDF_sp
    /\ lastEvent.submits = 0
    /\ inputFiles # <<>>
    /\ uploadText # InitialText

\* C3: every submission carries a file whose extension is in the allow-list,
\* on the picker path as on the drop path.
C3_SubmitsOnlyAllowed ==
    lastEvent.submits > 0 => TrueExt(inputFiles[1]) \in AllowList

\* C4: when a drop submits, the file input holds exactly one file.
C4_OneFileAtSubmit ==
    (lastEvent.kind = "drop" /\ lastEvent.submits > 0) => Len(inputFiles) = 1

DangerAlertShown ==
    \E a \in AlertIds :
        /\ alerts[a].parent = "alertContainer"
        /\ alerts[a].type = "danger"
        /\ alerts[a].dismissible
        /\ alerts[a].message = "Only PDF, DOCX, and TXT files are accepted."

\* C5: after every rejected drop a dismissible danger alert with the fixed
\* message is in the alert container.
C5_RejectedDropAlerts ==
    (WasDrop(lastEvent) /\ TrueExt(lastEvent.file) \notin AllowList)
    => DangerAlertShown

\* C5 (amended): after every rejected drop on a page that has the alert
\* container, a dismissible danger alert with the fixed message is in it.
C5_RejectedDropAlertsInContainer ==
    ( /\ "alertContainer" \in present
      /\ WasDrop(lastEvent)
      /\ TrueExt(lastEvent.file) \notin AllowList )
    => DangerAlertShown

C5_Witness ==
    /\ WasDrop(lastEvent)
    /\ lastEvent.file = Str_cv_pdf_exe
    /\ lastEvent.alert # 0
    /\ DangerAlertShown

\* C6: whatever elements the page has, no handler and no timer callback ends
\* in an uncaught exception.
C6_NoHandlerThrows == lastEvent.threw = FALSE

\* C7: the timer callback of an alert that was dismissed before leaves the
\* alert as it is: no further close() on it, nothing else changes.
C7_TimerAfterDismissNoOp ==
    [][ (lastEvent'.kind = "timer" /\ alerts[lastEvent'.alert].parent = "none")
        => /\ \A a \in AlertIds :
                /\ alerts'[a].closeCalls = alerts[a].closeCalls
                /\ alerts'[a].parent = alerts[a].parent
           /\ UNCHANGED <<inputFiles, uploadText, dragover, sidebarShow,
                          dataTheme, storedTheme>> ]_vars

\* C8: an alert injected by showAlert is in the container right after the
\* call, is out of the document once its timer has fired and right after a
\* dismiss click, and so is eventually removed.
C8_InjectedAlertLifecycle ==
    /\ [][ (lastEvent'.kind = "drop" /\ lastEvent'.alert # 0)
           => alerts'[lastEvent'.alert].parent = "alertContainer" ]_vars
    /\ [][ lastEvent'.kind \in {"timer", "dismiss"}
           => alerts'[lastEvent'.alert].parent = "none" ]_vars
    /\ \A a \in AlertIds :
         (alerts[a].origin = "injected" /\ alerts[a].parent # "none")
         ~> (alerts[a].parent = "none")

C8_Witness ==
    \E a \in AlertIds :
        /\ lastEvent.kind = "timer"
        /\ lastEvent.alert = a
        /\ alerts[a].origin = "injected"
        /\ alerts[a].closeCalls = 1
        /\ alerts[a].parent = "none"

\* C9: starting from light or dark, two consecutive toggle clicks bring the
\* document root's data-theme back to what it was.
C9_ToggleTwice ==
    /\ themeTrail # <<>> => dataTheme = themeTrail[Len(themeTrail)]
    /\ \A i \in 1..(Len(themeTrail) - 2) :
         themeTrail[i] \in {"light", "dark"} => themeTrail[i + 2] = themeTrail[i]

C9_Witness ==
    /\ storedTheme = "light"
    /\ themeTrail = <<"light", "dark", "light">>
    /\ dataTheme = "light"

\* C10: after one or more toggle clicks the value stored under 'theme' is the
\* theme of the last click and is the document root's data-theme.
C10_PersistedReflectsLastToggle ==
    Len(themeTrail) >= 2
    => /\ storedTheme = themeTrail[Len(themeTrail)]
       /\ storedTheme = dataTheme

C10_Witness ==
    /\ lastEvent.kind = "themeClick"
    /\ themeTrail = <<"auto", "dark", "light">>
    /\ storedTheme = "light"

\* C11: a document click outside the sidebar and its toggle button hides
\* the sidebar at a viewport width of at most 992; a click inside the sidebar,
\* and an outside click at a larger width, leave its "show" state as it was.
C11_OutsideClickDismisses ==
    [][ /\ (lastEvent'.kind = "pageClick" /\ lastEvent'.width <= 992)
           => ~sidebarShow'
        /\ (lastEvent'.kind = "pageClick" /\ lastEvent'.width > 992)
           => sidebarShow' = sidebarShow
        /\ lastEvent'.kind = "sidebarClick"
           => sidebarShow' = sidebarShow ]_vars

C11_Witness ==
    /\ lastEvent.kind = "pageClick"
    /\ lastEvent.width = 992
    /\ lastEvent.wasShown
    /\ ~sidebarShow

C13_LoadAppliesTheme ==
    [][ /\ lastEvent'.kind = "load"
           => dataTheme' = (IF storedTheme = "none" THEN "light" ELSE storedTheme)
        /\ lastEvent'.kind = "load" => storedTheme' = storedTheme
        /\ storedTheme' # storedTheme => lastEvent'.kind = "themeClick"
        /\ storedTheme # "none" => storedTheme' # "none" ]_vars

\* C13 (amended): on a page that has the theme toggle, page load applies the
\* stored theme to the document root, "light" when none is stored; page load
\* leaves the stored key as it is, only a toggle click changes it and nothing
\* deletes it.
C13_LoadAppliesThemeWithToggle ==
    [][ /\ (lastEvent'.kind = "load" /\ "themeToggle" \in present)
           => dataTheme' = (IF storedTheme = "none" THEN "light" ELSE storedTheme)
        /\ lastEvent'.kind = "load" => storedTheme' = storedTheme
        /\ storedTheme' # storedTheme => lastEvent'.kind = "themeClick"
        /\ storedTheme # "none" => storedTheme' # "none" ]_vars

C13_Witness ==
    /\ lastEvent.kind = "load"
    /\ "themeToggle" \in present
    /\ storedTheme = "none"
    /\ dataTheme = "light"

\* C14: a click on the sidebar toggle flips the sidebar's "show" state once,
\* at every viewport width: the document listener does not undo it.  After n
\* toggle clicks from the hidden state, with no other listener having changed
\* the state, the sidebar is shown iff n is odd.
C14_ToggleFlipsOnce ==
    [][ /\ lastEvent'.kind = "sidebarToggleClick" => sidebarShow' = ~sidebarShow
        /\ toggleClicks' >= 0 => (sidebarShow' <=> toggleClicks' % 2 = 1) ]_vars

C14_Witness ==
    /\ lastEvent.kind = "sidebarToggleClick"
    /\ lastEvent.width = 992
    /\ toggleClicks = 3
    /\ sidebarShow

\* C15: once the page has loaded, every dismissible alert, rendered by the
\* server or injected by showAlert, has had exactly one auto-close timer
\* scheduled for it.
C15_OneTimerPerAlert ==
    loaded => \A a \in AlertIds :
                 (alerts[a].origin # "none" /\ alerts[a].dismissible)
                 => alerts[a].timers = 1

C15_Witness ==
    /\ loaded
    /\ \E a, b \in AlertIds :
         /\ alerts[a].origin = "prerendered" /\ alerts[a].timers = 1
         /\ alerts[b].origin = "injected" /\ alerts[b].timers = 1
         /\ alerts[b].timer = "fired"

\* C16: drag-over sets the zone's "dragover" class and drag-leave clears it;
\* neither changes input.files, the status text or the alerts, nor calls
\* submit; after every drop the class is cleared.
C16_DragIsPresentation ==
    [][ /\ lastEvent'.kind = "dragover" => dragover'
        /\ lastEvent'.kind = "dragleave" => ~dragover'
        /\ lastEvent'.kind \in {"dragover", "dragleave"}
           => /\ inputFiles' = inputFiles
              /\ uploadText' = uploadText
              /\ alerts' = alerts
              /\ lastEvent'.submits = 0
        /\ lastEvent'.kind = "drop" => ~dragover' ]_vars

C16_Witness ==
    /\ lastEvent.kind = "dragleave"
    /\ ~dragover
    /\ inputFiles # <<>>
    /\ uploadText # InitialText
    /\ \E a \in AlertIds : alerts[a].parent = "alertContainer"

\* C17: a drop that carries no file clears the "dragover" class and does
\* nothing else: no alert, input.files and the status text as before, no
\* submit.
C17_EmptyDropNoOp ==
    [][ (lastEvent'.kind = "drop" /\ lastEvent'.file = <<>>)
        => /\ ~dragover'
           /\ alerts' = alerts
           /\ inputFiles' = inputFiles
           /\ uploadText' = uploadText
           /\ lastEvent'.submits = 0
           /\ ~lastEvent'.threw ]_vars

C17_Witness ==
    /\ lastEvent = Ev("drop")
    /\ ~dragover
    /\ inputFiles # <<>>
    /\ \E a \in AlertIds : alerts[a].parent = "alertContainer"

====
